---------------------------- MODULE Spec2Model ----------------------------
(* LogseqRenderer (logseq_doctor/__init__.py): the traversal that turns a   *)
(* parsed Markdown tree into an indented outline.                           *)
(*                                                                          *)
(* Text is a sequence of one-character strings.  The Python call stack of   *)
(* the recursive descent is the variable stack;    every handler of the      *)
(* renderer that has block children is an Enter/Exit pair of actions, every *)
(* handler without block children is one action.  os.linesep is "\n".       *)
EXTENDS Integers, Sequences, FiniteSets, TLC

VARIABLES
    current_level,  \* self.current_level of each live renderer instance
    active,         \* the instance the running (or last) render call uses
    status,         \* "idle" | "running" | "done" | "failed" of that call
    doc,            \* the Document token handed to that call
    stack,          \* the call stack of handlers with block children
    result,         \* the string the call returned (<<>> unless "done")
    start_level,    \* history: current_level of the instance when the call began
    last            \* history: what the handler that returned last returned

vars == <<current_level, active, status, doc, stack, result, start_level, last>>

-----------------------------------------------------------------------------
(* Python's str and sequence operations, as the renderer uses them.         *)

LINESEP == <<"\n">>

CHAR_DASH == "-"

CHARS_UL_LEADER == {"*", "-"}

OL_MARKER == <<"#", ".", "o", "l">>

Bullet == <<"-", " ">>

Continuation == <<" ", " ">>

\* The character U+0060, which no TLA+ string literal can hold.
BACKTICK == "U+0060"

Fence == <<BACKTICK, BACKTICK, BACKTICK>>

Whitespace == {" ", "\n"}

RECURSIVE Rep(_, _)
\* s * n: no copy at all when n <= 0.
Rep(s, n) == IF n <= 0 THEN <<>> ELSE s \o Rep(s, n - 1)

RECURSIVE Concat(_)
\* "".join(parts)
Concat(parts) == IF parts = <<>> THEN <<>> ELSE Head(parts) \o Concat(Tail(parts))

RECURSIVE Join(_, _)
\* sep.join(parts)
Join(parts, sep) ==
    IF parts = <<>> THEN <<>>
    ELSE IF Len(parts) = 1 THEN parts[1]
    ELSE parts[1] \o sep \o Join(Tail(parts), sep)

RECURSIVE Split(_)
\* s.split(os.linesep): one more piece than there are separators.
Split(s) ==
    IF \A i \in 1..Len(s) : s[i] # "\n" THEN <<s>>
    ELSE LET k == CHOOSE i \in 1..Len(s) :
                      s[i] = "\n" /\ \A j \in 1..(i - 1) : s[j] # "\n"
         IN  <<SubSeq(s, 1, k - 1)>> \o Split(SubSeq(s, k + 1, Len(s)))

\* s.splitlines(): as split, without the empty piece after a final separator.
SplitLines(s) ==
    LET p == Split(s)
    IN  IF p[Len(p)] = <<>> THEN SubSeq(p, 1, Len(p) - 1) ELSE p

RECURSIVE LStrip(_, _)
\* s.lstrip(chars): drops leading characters while they are IN the set chars.
LStrip(s, chars) ==
    IF s # <<>> /\ s[1] \in chars THEN LStrip(Tail(s), chars) ELSE s

RECURSIVE RStrip(_, _)
RStrip(s, chars) ==
    IF s # <<>> /\ s[Len(s)] \in chars THEN RStrip(SubSeq(s, 1, Len(s) - 1), chars)
    ELSE s

\* s.strip()
Strip(s) == RStrip(LStrip(s, Whitespace), Whitespace)

\* A slice bound as Python normalises it: negative counts from the end.
SliceIndex(n, len) ==
    LET m == IF n < 0 THEN n + len ELSE n
    IN  IF m < 0 THEN 0 ELSE IF m > len THEN len ELSE m

\* s[lo:hi]
Slice(s, lo, hi) == SubSeq(s, SliceIndex(lo, Len(s)) + 1, SliceIndex(hi, Len(s)))

\* s[lo:]
SliceFrom(s, lo) == SubSeq(s, SliceIndex(lo, Len(s)) + 1, Len(s))

-----------------------------------------------------------------------------
(* Tokens of the parsed tree.  One record shape for every kind.             *)

Tok(kind, level, leader, content, language, header, children) ==
    [kind |-> kind, level |-> level, leader |-> leader, content |-> content,
     language |-> language, header |-> header, children |-> children]

RawText(t)            == Tok("RawText", 0, "", t, <<>>, <<>>, <<>>)
LineBreak             == Tok("LineBreak", 0, "", <<>>, <<>>, <<>>, <<>>)
Strong(cs)            == Tok("Strong", 0, "", <<>>, <<>>, <<>>, cs)
Paragraph(cs)         == Tok("Paragraph", 0, "", <<>>, <<>>, <<>>, cs)
Heading(l, cs)        == Tok("Heading", l, "", <<>>, <<>>, <<>>, cs)
SetextHeading(cs)     == Tok("SetextHeading", 2, "", <<>>, <<>>, <<>>, cs)
ThematicBreak         == Tok("ThematicBreak", 0, "", <<>>, <<>>, <<>>, <<>>)
BlockCode(lang, cs)   == Tok("BlockCode", 0, "", <<>>, lang, <<>>, cs)
ListItem(leader, cs)  == Tok("ListItem", 0, leader, <<>>, <<>>, <<>>, cs)
List(items)           == Tok("List", 0, "", <<>>, <<>>, <<>>, items)
Quote(cs)             == Tok("Quote", 0, "", <<>>, <<>>, <<>>, cs)
TableCell(cs)         == Tok("TableCell", 0, "", <<>>, <<>>, <<>>, cs)
TableRow(cells)       == Tok("TableRow", 0, "", <<>>, <<>>, <<>>, cells)
Table(header, rows)   == Tok("Table", 0, "", <<>>, <<>>, header, rows)
Document(cs)          == Tok("Document", 0, "", <<>>, <<>>, <<>>, cs)

-----------------------------------------------------------------------------
(* Handlers that touch no renderer state beyond reading current_level.      *)

\* LogseqRenderer.outline
outline(indent, text, continuation, nl) ==
    Rep(<<" ", " ">>, indent)
        \o (IF continuation THEN Continuation ELSE Bullet)
        \o text
        \o (IF nl THEN LINESEP ELSE <<>>)

RECURSIVE render_span(_)
\* The span handlers: raw text, line break, strong (render_inner of spans).
render_span(token) ==
    LET inner == Concat([i \in 1..Len(token.children) |-> render_span(token.children[i])])
    IN  CASE token.kind = "RawText"   -> token.content
          [] token.kind = "LineBreak" -> token.content \o LINESEP
          [] token.kind = "Strong"    -> <<"*", "*">> \o inner \o <<"*", "*">>
          [] OTHER                    -> inner

\* BaseRenderer.render_inner on a token whose children are spans.
render_inner_spans(token) ==
    Concat([i \in 1..Len(token.children) |-> render_span(token.children[i])])

\* A heading that sets the level to the depth of its own bullet.
heading_level_own_depth(token) == token.level - 1

\* render_heading, ATX branch: the value self.current_level is set to.
heading_level(token) == token.level

\* render_heading, ATX branch: the value returned.
render_heading_atx(token) ==
    outline(token.level - 1,
            Rep(<<"#">>, token.level) \o <<" ">> \o render_inner_spans(token),
            FALSE, TRUE)

\* render_heading, setext branch.
render_heading_setext(token) ==
    render_inner_spans(token) \o LINESEP \o Rep(<<CHAR_DASH>>, 3) \o LINESEP

\* render_paragraph at the given current_level.
render_paragraph(token, level) ==
    LET input_lines  == SplitLines(Strip(render_inner_spans(token)))
        output_lines == [i \in 1..Len(input_lines) |->
                            outline(level, input_lines[i], FALSE, FALSE)]
    IN  Join(output_lines, LINESEP) \o LINESEP

\* render_thematic_break
render_thematic_break == Rep(<<CHAR_DASH>>, 3) \o LINESEP

\* An assertion that only asks for a child.
block_code_assertion_some_child(token) == Len(token.children) >= 1

\* The assertion that opens render_block_code.
block_code_assertion(token) == Len(token.children) = 1

\* A code block whose content lines are bullets of their own.
render_block_code_bullets(token, level) ==
    LET ls    == SplitLines(token.children[1].content)
        inner == Concat([i \in 1..Len(ls) |-> outline(level, ls[i], FALSE, TRUE)])
        close == outline(level, Fence, TRUE, TRUE)
    IN  outline(level, Fence \o token.language \o LINESEP \o inner \o close, FALSE, TRUE)

\* render_block_code past its assertion, at the given current_level.
render_block_code(token, level) ==
    LET ls    == SplitLines(token.children[1].content)
        inner == Concat([i \in 1..Len(ls) |-> outline(level, ls[i], TRUE, TRUE)])
        close == outline(level, Fence, TRUE, TRUE)
    IN  outline(level, Fence \o token.language \o LINESEP \o inner \o close, FALSE, TRUE)

\* render_table_cell
render_table_cell(token) == <<"|", " ">> \o render_inner_spans(token) \o <<" ">>

\* render_table_row
render_table_row(token, is_header, level) ==
    LET cells == Concat([i \in 1..Len(token.children) |->
                            render_table_cell(token.children[i])]) \o <<"|">>
    IN  IF is_header
        THEN cells \o LINESEP
                 \o outline(level,
                            Rep(<<"|", " ", "-", "-", "-", " ">>, Len(token.children))
                                \o <<"|">>,
                            TRUE, TRUE)
        ELSE outline(level, cells, TRUE, TRUE)

\* render_table: token.header is <<>> (None) or <<row>>.
render_table(token, level) ==
    LET head == IF token.header # <<>>
                THEN render_table_row(token.header[1], TRUE, level) ELSE <<>>
        rows == Concat([i \in 1..Len(token.children) |->
                           render_table_row(token.children[i], FALSE, level)])
    IN  outline(level, head \o Slice(rows, 0, -1), FALSE, TRUE)

-----------------------------------------------------------------------------
(* The handlers with block children: what each returns once render_inner    *)
(* has returned inner, read     at the current_level of that moment.          *)

\* The characters of f"{self.bullet} ", the argument of lstrip in render_list_item.
BulletChars == {"-", " "}

\* A re-wrap that puts the head bullet at the level of the children.
render_list_item_wrap_deep(inner, level) ==
    outline(level, LStrip(inner, {"-", " "}), FALSE, FALSE)

\* render_list_item, more than one child: the value returned; level is
\* current_level after the children were rendered, before it is decremented.
render_list_item_wrap(inner, level) ==
    LET headless_parent_with_children == LStrip(inner, BulletChars)
    IN  outline(level - 1, headless_parent_with_children, FALSE, FALSE)

\* render_list: whether the list is ordered.
is_ol(token) ==
    token.children # <<>> /\ token.children[1].leader \notin CHARS_UL_LEADER

\* A prefix that ends before the marker.
prefix_chars_before_marker(level) == level * 2

\* render_quote: prefix_chars, from current_level after the children were rendered.
prefix_chars(level) == level * 2 + 2

\* render_quote: the value returned.
render_quote(inner, level) ==
    LET lines    == Split(inner)
        p        == prefix_chars(level)
        prefixed == [i \in 1..Len(lines) |->
                        IF lines[i] # <<>>
                        THEN Slice(lines[i], 0, p) \o <<">", " ">> \o SliceFrom(lines[i], p)
                        ELSE <<>>]
    IN  Join(prefixed, LINESEP)

\* render_front_matter
render_front_matter(token) ==
    Rep(<<"-">>, 3) \o LINESEP \o token.content \o Rep(<<"-">>, 3) \o LINESEP

\* render_document: the value returned; token.header is the front matter, if any.
render_document(token, inner) ==
    (IF token.header # <<>> THEN render_front_matter(token.header[1]) ELSE <<>>)
        \o inner

-----------------------------------------------------------------------------
(* The documents handed to the renderer: trees the parser can produce, and  *)
(* trees that break its contract (a code block without exactly one child, a *)
(* table row with fewer cells than the header).                             *)

\* How many headings may open a document.
MaxLead == 1

\* How far from 0 the level of the long-lived renderer may be for a further
\* render call on it to be followed.
MaxDrift == 3

\* How many paragraphs may close a document.
MaxTrail == 1

HeadingLevels == 1..6

TxtA == <<"a">>
TxtB == <<"b">>
TxtDash == <<"-", "x">>

SpansA == <<RawText(TxtA)>>
SpansDash == <<RawText(TxtDash)>>
SpansTwoLines == <<RawText(TxtA), LineBreak, Strong(<<RawText(TxtB)>>)>>

PA == Paragraph(SpansA)
PDash == Paragraph(SpansDash)
PTwo == Paragraph(SpansTwoLines)

H(l) == Heading(l, SpansA)

CodeTexts == { <<>>, <<"x", "\n">>, <<"-", " ", "z", "\n", " ", "y", "\n">> }

Languages == { <<>>, <<"p", "y">> }

CodeGood == BlockCode(<<"p", "y">>, <<RawText(<<"x", "\n">>)>>)
CodeNoChild == BlockCode(<<>>, <<>>)
CodeTwoChildren == BlockCode(<<>>, <<RawText(<<"x", "\n">>), RawText(<<"y", "\n">>)>>)

CodeBlocks ==
    { BlockCode(lang, <<RawText(t)>>) : lang \in Languages, t \in CodeTexts }
        \cup {CodeNoChild, CodeTwoChildren}

Cell(t) == TableCell(<<RawText(t)>>)
TableGood == Table(<<TableRow(<<Cell(TxtA), Cell(TxtB)>>)>>,
                   <<TableRow(<<Cell(<<"1">>), Cell(<<"2">>)>>)>>)
TableNoHeader == Table(<<>>, <<TableRow(<<Cell(<<"1">>), Cell(<<"2">>)>>)>>)
TableShortRow == Table(<<TableRow(<<Cell(TxtA), Cell(TxtB)>>)>>,
                       <<TableRow(<<Cell(<<"1">>)>>)>>)
Tables == {TableGood, TableNoHeader, TableShortRow}

Leaders == {"-", "1."}

\* A list whose items all carry the leader l and have the given children.
ListOf(l, bodies) == List([i \in 1..Len(bodies) |-> ListItem(l, bodies[i])])

\* Children of a list item that holds no list.
ItemBodies0 ==
    { <<c>> : c \in {PA, CodeGood, CodeNoChild} }
        \cup { <<c1, c2>> : c1 \in {PA, PDash, ThematicBreak, H(1), H(3), CodeGood},
                            c2 \in {PA, CodeNoChild} }

Lists0 ==
    { ListOf(l, <<b>>) : l \in Leaders, b \in ItemBodies0 }
        \cup { ListOf(l, <<<<PA>>, b>>) : l \in Leaders \cup {"*"},
                                          b \in {<<PA>>, <<PA, PA>>} }

\* Children of a list item that holds a list.
ItemBodies1 ==
    { <<PA, ListOf(l, <<b>>)>> :
          l \in Leaders,
          b \in {<<PA>>, <<PA, PA>>, <<H(1), PA>>, <<PA, CodeNoChild>>} }

Lists1 == { ListOf(l, <<b>>) : l \in Leaders, b \in ItemBodies1 }

Quotes ==
    { Quote(<<c>>) :
          c \in {PA, PDash, PTwo, H(1), H(3), ThematicBreak, CodeGood, CodeNoChild,
                 TableGood, Quote(<<PA>>),
                 ListOf("-", <<<<PA>>, <<PA>>>>), ListOf("1.", <<<<PA>>>>),
                 ListOf("-", <<<<PA, PA>>>>),
                 ListOf("-", <<<<PA, ListOf("-", <<<<PA>>>>)>>>>)} }
        \cup { Quote(<<PA, c>>) : c \in {PA, CodeGood, H(2)} }

TopBlocks ==
    {PA, PDash, PTwo, ThematicBreak, SetextHeading(SpansA)}
        \cup { H(l) : l \in HeadingLevels }
        \cup CodeBlocks \cup Tables \cup Lists0 \cup Lists1 \cup Quotes

RECURSIVE SeqsUpTo(_, _)
\* The sequences over S of length at most n.
SeqsUpTo(S, n) ==
    IF n = 0 THEN {<<>>}
    ELSE LET shorter == SeqsUpTo(S, n - 1)
         IN  shorter \cup { Append(q, x) : q \in shorter, x \in S }

FrontMatter == Tok("FrontMatter", 0, "", <<"k", "\n">>, <<>>, <<>>, <<>>)

Docs ==
    { Document(lead \o <<b>> \o trail) :
          lead \in SeqsUpTo({H(1), H(3)}, MaxLead),
          b \in TopBlocks,
          trail \in SeqsUpTo({PA}, MaxTrail) }
        \cup { Tok("Document", 0, "", <<>>, <<>>, <<FrontMatter>>, <<b>>) :
                   b \in {PA, H(2)} }

\* The documents rendered on the long-lived renderer.
SharedDocs ==
    { Document(<<b>>) : b \in TopBlocks } \cup { Document(<<H(3), CodeGood, PA>>) }

-----------------------------------------------------------------------------
(* The renderer as a state machine.                                         *)

NoReturn ==
    [returned |-> FALSE, out |-> <<>>, inner |-> <<>>, entry |-> 0, exit |-> 0]

Returned(out, inner, entry, exit) ==
    [returned |-> TRUE, out |-> out, inner |-> inner, entry |-> entry, exit |-> exit]

\* A handler's frame: how many children its render_inner has joined, their
\* joined output, its local ol_marker; entry is history, the level on entry.
Frame(entry, marker) ==
    [i |-> 0, acc |-> <<>>, entry |-> entry, ol_marker |-> marker]

RECURSIVE FrameTok(_)
\* The token the k-th handler on the stack was called with.
FrameTok(k) ==
    IF k = 1 THEN doc ELSE FrameTok(k - 1).children[stack[k - 1].i + 1]

Top == stack[Len(stack)]

TopTok == FrameTok(Len(stack))

Level == current_level[active]

\* render_inner of the running handler has a next child to dispatch.
HasNext == status = "running" /\ stack # <<>> /\ Top.i < Len(TopTok.children)

NextChild == TopTok.children[Top.i + 1]

\* render_inner of the running handler has joined all its children.
InnerDone(kind) ==
    /\ status = "running" /\ stack # <<>>
    /\ TopTok.kind = kind
    /\ Top.i = Len(TopTok.children)

\* The stack once the handler of the next child has returned out to render_inner.
Resume(stk, out) ==
    [stk EXCEPT ![Len(stk)] = [@ EXCEPT !.acc = @ \o out, !.i = @ + 1]]

SetLevel(l) == current_level' = [current_level EXCEPT ![active] = l]

\* LogseqRenderer.__init__: a renderer starts at level 0.
Init ==
    /\ current_level = [r \in {"shared"} |-> 0]
    /\ active = "shared"
    /\ status = "idle"
    /\ doc = Document(<<>>)
    /\ stack = <<>>
    /\ result = <<>>
    /\ start_level = 0
    /\ last = NoReturn

\* renderer.render(document) on the long-lived instance: render_document begins.
Render ==
    /\ status = "idle"
    /\ current_level["shared"] \in -MaxDrift..MaxDrift
    /\ active' = "shared"
    /\ status' = "running"
    /\ \E d \in SharedDocs : doc' = d
    /\ stack' = <<Frame(current_level["shared"], <<>>)>>
    /\ result' = <<>>
    /\ start_level' = current_level["shared"]
    /\ last' = NoReturn
    /\ UNCHANGED current_level

\* flat_markdown_to_outline: mistletoe.markdown is handed the class and
\* constructs a renderer of its own for the call.
FlatMarkdownToOutline ==
    /\ status = "idle"
    /\ current_level' = [r \in {"shared", "fresh"} |->
                            IF r = "fresh" THEN 0 ELSE current_level["shared"]]
    /\ active' = "fresh"
    /\ status' = "running"
    /\ \E d \in Docs : doc' = d
    /\ stack' = <<Frame(0, <<>>)>>
    /\ result' = <<>>
    /\ start_level' = 0
    /\ last' = NoReturn

\* The renderer of a flat_markdown_to_outline call does not outlive it.
Release ==
    IF active = "fresh" THEN [r \in {"shared"} |-> current_level["shared"]]
    ELSE current_level

\* render_document returns.
ReturnDocument ==
    /\ InnerDone("Document")
    /\ result' = render_document(TopTok, Top.acc)
    /\ status' = "done"
    /\ stack' = <<>>
    /\ current_level' = Release
    /\ last' = Returned(render_document(TopTok, Top.acc), Top.acc, Top.entry, Level)
    /\ UNCHANGED <<active, doc, start_level>>

\* The caller has the outcome of the call (the string, or the AssertionError)
\* and drops it; of the call only the level of the long-lived renderer remains.
CallOver ==
    /\ status \in {"done", "failed"}
    /\ status' = "idle"
    /\ active' = "shared"
    /\ doc' = Document(<<>>)
    /\ result' = <<>>
    /\ start_level' = 0
    /\ last' = NoReturn
    /\ UNCHANGED <<current_level, stack>>

\* A handler without block children returns out, leaving the level at lvl.
Leaf(out, lvl) ==
    /\ stack' = Resume(stack, out)
    /\ SetLevel(lvl)
    /\ last' = Returned(out, <<>>, Level, lvl)
    /\ UNCHANGED <<active, status, doc, result, start_level>>

\* render_heading on an ATX heading.
RenderHeading ==
    /\ HasNext /\ NextChild.kind = "Heading"
    /\ Leaf(render_heading_atx(NextChild), heading_level(NextChild))

\* render_heading on a setext heading.
RenderSetextHeading ==
    /\ HasNext /\ NextChild.kind = "SetextHeading"
    /\ Leaf(render_heading_setext(NextChild), Level)

RenderParagraph ==
    /\ HasNext /\ NextChild.kind = "Paragraph"
    /\ Leaf(render_paragraph(NextChild, Level), Level)

RenderThematicBreak ==
    /\ HasNext /\ NextChild.kind = "ThematicBreak"
    /\ Leaf(render_thematic_break, Level)

RenderBlockCode ==
    /\ HasNext /\ NextChild.kind = "BlockCode"
    /\ block_code_assertion(NextChild)
    /\ Leaf(render_block_code(NextChild, Level), Level)

\* The assertion of render_block_code fails: AssertionError leaves every
\* handler on the stack (none catches it) and the render call.
BlockCodeAssertionError ==
    /\ HasNext /\ NextChild.kind = "BlockCode"
    /\ ~block_code_assertion(NextChild)
    /\ status' = "failed"
    /\ stack' = <<>>
    /\ result' = <<>>
    /\ current_level' = Release
    /\ last' = NoReturn
    /\ UNCHANGED <<active, doc, start_level>>

RenderTable ==
    /\ HasNext /\ NextChild.kind = "Table"
    /\ Leaf(render_table(NextChild, Level), Level)

\* A handler with block children is entered, leaving the level at lvl.
Enter(lvl, marker) ==
    /\ stack' = Append(stack, Frame(Level, marker))
    /\ SetLevel(lvl)
    /\ last' = NoReturn
    /\ UNCHANGED <<active, status, doc, result, start_level>>

\* A handler with block children returns out, leaving the level at lvl.
Exit(out, lvl) ==
    /\ stack' = Resume(SubSeq(stack, 1, Len(stack) - 1), out)
    /\ SetLevel(lvl)
    /\ last' = Returned(out, Top.acc, Top.entry, lvl)
    /\ UNCHANGED <<active, status, doc, result, start_level>>

\* render_list_item up to its render_inner.
EnterListItem ==
    /\ HasNext /\ NextChild.kind = "ListItem"
    /\ Enter(IF Len(NextChild.children) <= 1 THEN Level ELSE Level + 1, <<>>)

\* render_list_item from its render_inner on.
ExitListItem ==
    /\ InnerDone("ListItem")
    /\ IF Len(TopTok.children) <= 1
       THEN Exit(Top.acc, Level)
       ELSE Exit(render_list_item_wrap(Top.acc, Level), Level - 1)

\* render_list up to its render_inner.
EnterList ==
    /\ HasNext /\ NextChild.kind = "List"
    /\ IF is_ol(NextChild)
       THEN Enter(Level + 1, outline(Level, OL_MARKER, FALSE, TRUE))
       ELSE Enter(Level, <<>>)

\* render_list from its render_inner on.
ExitList ==
    /\ InnerDone("List")
    /\ Exit(Top.ol_marker \o Top.acc, IF is_ol(TopTok) THEN Level - 1 ELSE Level)

\* render_quote up to its render_inner.
EnterQuote ==
    /\ HasNext /\ NextChild.kind = "Quote"
    /\ Enter(Level, <<>>)

\* render_quote from its render_inner on.
ExitQuote ==
    /\ InnerDone("Quote")
    /\ Exit(render_quote(Top.acc, Level), Level)

Next ==
    \/ Render
    \/ FlatMarkdownToOutline
    \/ ReturnDocument
    \/ CallOver
    \/ RenderHeading
    \/ RenderSetextHeading
    \/ RenderParagraph
    \/ RenderThematicBreak
    \/ RenderBlockCode
    \/ BlockCodeAssertionError
    \/ RenderTable
    \/ EnterListItem
    \/ ExitListItem
    \/ EnterList
    \/ ExitList
    \/ EnterQuote
    \/ ExitQuote

Spec == Init /\ [][Next]_vars

-----------------------------------------------------------------------------
(* Reading the output: lines, indentation, markers.                         *)

\* The token whose handler returned last, while last.returned.
LastTok == IF stack = <<>> THEN doc ELSE TopTok.children[Top.i]

\* The lines of a rendered text, and those of them that are not empty.
LinesOf(text) == Split(text)

NonEmptyLinesOf(text) == SelectSeq(Split(text), LAMBDA l : l # <<>>)

\* Two-space units of indentation at depth d: none below depth 0.
Units(d) == IF d < 0 THEN 0 ELSE d

\* The number of spaces line begins with.
LeadingSpaces(line) ==
    IF \A i \in 1..Len(line) : line[i] = " " THEN Len(line)
    ELSE (CHOOSE i \in 1..Len(line) :
              line[i] # " " /\ \A j \in 1..(i - 1) : line[j] = " ") - 1

\* line is a bullet line: indentation, then "- ".
IsBullet(line) ==
    LET n == LeadingSpaces(line)
    IN  Len(line) >= n + 2 /\ line[n + 1] = "-" /\ line[n + 2] = " "

\* line is a bullet line at depth d.
IsBulletAt(line, d) == IsBullet(line) /\ LeadingSpaces(line) = 2 * Units(d)

\* line is a continuation line at depth d: the indentation of depth d, then
\* the two-space continuation marker.
IsContinuationAt(line, d) ==
    /\ Len(line) >= 2 * Units(d) + 2
    /\ \A i \in 1..(2 * Units(d) + 2) : line[i] = " "

\* What follows the marker of a line at depth d.
AfterMarker(line, d) == SubSeq(line, 2 * Units(d) + 3, Len(line))

RECURSIVE HasHeading(_)
\* token is, or holds at any depth, an ATX heading.
HasHeading(token) ==
    \/ token.kind = "Heading"
    \/ \E i \in 1..Len(token.children) : HasHeading(token.children[i])

RECURSIVE HasUnindented(_)
\* token is, or holds at any depth, a block rendered without outline():
\* a setext heading or a thematic break.
HasUnindented(token) ==
    \/ token.kind \in {"SetextHeading", "ThematicBreak"}
    \/ \E i \in 1..Len(token.children) : HasUnindented(token.children[i])

-----------------------------------------------------------------------------
(* C1 *)

\* The heading at position j of the running handler's children is the last
\* ATX heading rendered: none lies, at any depth, in the children after it
\* that have been rendered.
LatestHeadingAt(j) ==
    /\ TopTok.children[j].kind = "Heading"
    /\ \A m \in (j + 1)..Top.i : ~HasHeading(TopTok.children[m])

\* The heading at position j is the last heading among the siblings rendered.
LatestSiblingHeadingAt(j) ==
    /\ TopTok.children[j].kind = "Heading"
    /\ \A m \in (j + 1)..Top.i : TopTok.children[m].kind # "Heading"

-----------------------------------------------------------------------------
(* C2 *)

\* render_list_item has just returned from an item with several children.
MultiItemReturned ==
    /\ status = "running" /\ last.returned
    /\ LastTok.kind = "ListItem" /\ Len(LastTok.children) >= 2

\* line is at depth k exactly: a bullet there, or a continuation line there.
ExactlyAt(line, k) ==
    \/ IsBulletAt(line, k)
    \/ ~IsBullet(line) /\ IsContinuationAt(line, k)

\* C2 as stated: whatever the children of a list item with two or more
\* children, rendered at depth d, the first line of the item is a bullet at
\* depth d and every remaining line is at depth d+1 exactly.
C2_RestExactlyOneDeeper ==
    MultiItemReturned =>
        LET ls == NonEmptyLinesOf(last.out)
            d  == last.entry
        IN  /\ ls # <<>>
            /\ IsBulletAt(ls[1], d)
            /\ \A n \in 2..Len(ls) : ExactlyAt(ls[n], d + 1)

\* C2 amended: for a list item with two or more children, rendered at depth
\* d, that holds no ATX heading, setext heading or thematic break, the first
\* line is a bullet at depth d and every remaining non-empty line is indented
\* by at least d+1 units; when the children are all paragraphs every
\* remaining line is a bullet at depth d+1 exactly.
C2_RestAtLeastOneDeeper ==
    (MultiItemReturned /\ ~HasHeading(LastTok) /\ ~HasUnindented(LastTok)) =>
        LET ls == NonEmptyLinesOf(last.out)
            d  == last.entry
        IN  /\ IsBulletAt(LinesOf(last.out)[1], d)
            /\ \A n \in 2..Len(ls) :
                   /\ LeadingSpaces(ls[n]) >= 2 * Units(d + 1)
                   /\ (\A c \in 1..Len(LastTok.children) :
                           LastTok.children[c].kind = "Paragraph")
                          => IsBulletAt(ls[n], d + 1)

\* An item at depth 1 or deeper, a paragraph and a nested list, some line of
\* which lies deeper than the item's own children.
C2_Witness ==
    /\ MultiItemReturned /\ ~HasHeading(LastTok) /\ ~HasUnindented(LastTok)
    /\ last.entry >= 1
    /\ LastTok.children[2].kind = "List"
    /\ \E n \in 1..Len(NonEmptyLinesOf(last.out)) :
           LeadingSpaces(NonEmptyLinesOf(last.out)[n]) > 2 * (last.entry + 1)

-----------------------------------------------------------------------------
(* C3 *)

\* render_quote has just returned.
QuoteReturned ==
    status = "running" /\ last.returned /\ LastTok.kind = "Quote"

RECURSIVE MarkerEnd(_, _)
\* The column at which the marker of line n ends: after "- " when the line is
\* a bullet line; a continuation line has its marker under the marker of the
\* bullet it continues; 0 when there is no marker.
MarkerEnd(lines, n) ==
    IF n = 0 THEN 0
    ELSE IF IsBullet(lines[n]) THEN LeadingSpaces(lines[n]) + 2
    ELSE MarkerEnd(lines, n - 1)

\* C3 as stated: whatever the children of a quote and whatever its depth,
\* every non-empty line of the children has "> " put right after its own
\* bullet or continuation marker, and every empty line stays empty.
C3_QuoteAfterOwnMarker ==
    QuoteReturned =>
        LET in  == Split(last.inner)
            out == Split(last.out)
        IN  /\ Len(out) = Len(in)
            /\ \A n \in 1..Len(in) :
                   IF in[n] = <<>> THEN out[n] = <<>>
                   ELSE LET m == MarkerEnd(in, n)
                        IN  /\ m >= 2
                            /\ out[n] = SubSeq(in[n], 1, m) \o <<">", " ">>
                                            \o SubSeq(in[n], m + 1, Len(in[n]))

RECURSIVE FlatBlock(_)
\* Every line token renders lies at the depth token is rendered at: a
\* paragraph, a code block, a table, a quote of such blocks, an unordered
\* list whose items hold at most one such block.
FlatBlock(token) ==
    \/ token.kind \in {"Paragraph", "BlockCode", "Table"}
    \/ /\ token.kind = "Quote"
       /\ \A i \in 1..Len(token.children) : FlatBlock(token.children[i])
    \/ /\ token.kind = "List" /\ ~is_ol(token)
       /\ \A i \in 1..Len(token.children) :
              /\ Len(token.children[i].children) <= 1
              /\ \A c \in 1..Len(token.children[i].children) :
                     FlatBlock(token.children[i].children[c])

\* C3 amended: for a quote rendered at a depth d >= 0 whose children put
\* every line at depth d, every non-empty line of the children carries the
\* indentation of d and a bullet or continuation marker, and has "> " put
\* right after that marker with nothing else changed; empty lines stay empty.
C3_QuoteAfterMarkerAtOwnDepth ==
    (/\ QuoteReturned /\ last.entry >= 0
     /\ \A c \in 1..Len(LastTok.children) : FlatBlock(LastTok.children[c])) =>
        LET in  == Split(last.inner)
            out == Split(last.out)
            d   == last.entry
        IN  /\ Len(out) = Len(in)
            /\ \A n \in 1..Len(in) :
                   IF in[n] = <<>> THEN out[n] = <<>>
                   ELSE /\ IsBulletAt(in[n], d) \/ IsContinuationAt(in[n], d)
                        /\ out[n] = SubSeq(in[n], 1, 2 * d + 2) \o <<">", " ">>
                                        \o AfterMarker(in[n], d)

\* A quote at depth 2 or deeper of a paragraph and a code block.
C3_Witness ==
    /\ QuoteReturned /\ last.entry >= 2
    /\ Len(LastTok.children) = 2
    /\ LastTok.children[1].kind = "Paragraph"
    /\ LastTok.children[2].kind = "BlockCode"

-----------------------------------------------------------------------------
(* C4 *)

\* render_block_code has just returned.
BlockCodeReturned ==
    status = "running" /\ last.returned /\ LastTok.kind = "BlockCode"

\* C4: a code block with exactly one content child, rendered at depth d, is
\* one bullet line at depth d reading the fence and the language, then one
\* continuation line at depth d for each line of the content with exactly
\* that line's text after the continuation marker, then one continuation line
\* at depth d reading the fence; any line after it is empty.
C4_CodeBlockIsOneBullet ==
    BlockCodeReturned =>
        LET d   == last.entry
            ls  == SplitLines(LastTok.children[1].content)
            n   == Len(ls)
            out == LinesOf(last.out)
        IN  /\ Len(LastTok.children) = 1
            /\ last.exit = d
            /\ Len(out) >= n + 2
            /\ IsBulletAt(out[1], d)
            /\ AfterMarker(out[1], d) = Fence \o LastTok.language
            /\ \A k \in 1..n :
                   /\ IsContinuationAt(out[k + 1], d)
                   /\ AfterMarker(out[k + 1], d) = ls[k]
            /\ IsContinuationAt(out[n + 2], d)
            /\ AfterMarker(out[n + 2], d) = Fence
            /\ \A k \in (n + 3)..Len(out) : out[k] = <<>>

\* A code block at depth 1 or deeper whose content has two lines, the first
\* of which reads like a bullet.
C4_Witness ==
    /\ BlockCodeReturned /\ last.entry >= 1
    /\ SplitLines(LastTok.children[1].content) = << <<"-", " ", "z">>, <<" ", "y">> >>

-----------------------------------------------------------------------------
(* C5 *)

\* C5: every top-level render call starts with the depth counter at 0,
\* whatever calls came before it.
C5_CallStartsAtDepthZero ==
    status = "running" => start_level = 0

-----------------------------------------------------------------------------
(* C6 *)

RECURSIVE HasBrokenBlockCode(_)
\* token is, or holds at any depth, a code block without exactly one child.
HasBrokenBlockCode(token) ==
    \/ token.kind = "BlockCode" /\ Len(token.children) # 1
    \/ \E i \in 1..Len(token.children) : HasBrokenBlockCode(token.children[i])

RECURSIVE HasShortTableRow(_)
\* token is, or holds at any depth, a table with a body row whose number of
\* cells differs from the header's.
HasShortTableRow(token) ==
    \/ /\ token.kind = "Table" /\ token.header # <<>>
       /\ \E i \in 1..Len(token.children) :
              Len(token.children[i].children) # Len(token.header[1].children)
    \/ \E i \in 1..Len(token.children) : HasShortTableRow(token.children[i])

\* C6 as stated: a render call on a tree with a table row of the wrong number
\* of cells, or with a code block without exactly one child, fails and
\* yields no output; so a call that returns had neither.
C6_ContractViolationIsFatal ==
    /\ status = "done" => ~HasBrokenBlockCode(doc) /\ ~HasShortTableRow(doc)
    /\ status = "failed" => result = <<>> /\ stack = <<>>

\* C6 amended: a render call on a tree with a code block without exactly one
\* child fails and yields no output, nothing of what was rendered before the
\* code block either; a call fails for no other reason (a table row of the
\* wrong number of cells is rendered as it is).
C6_BrokenBlockCodeIsFatal ==
    /\ status = "done" => ~HasBrokenBlockCode(doc)
    /\ status = "failed" => HasBrokenBlockCode(doc) /\ result = <<>> /\ stack = <<>>

\* A call that failed after a heading had been rendered.
C6_Witness ==
    /\ status = "failed"
    /\ doc.children[1].kind = "Heading"
    /\ doc.children[2].kind = "BlockCode"

-----------------------------------------------------------------------------
(* C7 *)

\* C7: a render call that failed leaves the renderer as it found it: begun at
\* depth 0, it leaves depth 0 to the next call.
C7_FailedCallLeavesDepthZero ==
    (status = "failed" /\ active = "shared" /\ start_level = 0) =>
        current_level["shared"] = 0

-----------------------------------------------------------------------------
(* C8 *)

\* C8: the depth counter of a renderer is never negative.
C8_DepthNeverNegative ==
    \A r \in DOMAIN current_level : current_level[r] >= 0

-----------------------------------------------------------------------------
(* C9 *)

\* token is a node that raises the depth for its children: a list item with
\* more than one child, an ordered list.
RaisesDepth(token) ==
    \/ token.kind = "ListItem" /\ Len(token.children) > 1
    \/ token.kind = "List" /\ is_ol(token)

\* C9: while the children of a node that raises the depth are rendered the
\* depth is one more than on entry, and when the node returns the depth is
\* what it was on entry, whatever the children.
C9_DepthRestored ==
    status = "running" =>
        /\ RaisesDepth(TopTok) => Level = Top.entry + 1
        /\ (last.returned /\ RaisesDepth(LastTok)) => last.exit = last.entry

-----------------------------------------------------------------------------
(* C10 *)

\* C10: the re-wrapped list item begins, at the item's depth, with a bullet
\* followed by the text of its first child as that child was rendered: for a
\* paragraph its text, for a thematic break its dashes.
C10_HeadTextKept ==
    (MultiItemReturned /\ LastTok.children[1].kind \in {"Paragraph", "ThematicBreak"}) =>
        LET first == LastTok.children[1]
            text  == IF first.kind = "Paragraph"
                     THEN SplitLines(Strip(render_inner_spans(first)))[1]
                     ELSE <<"-", "-", "-">>
            head  == LinesOf(last.out)[1]
        IN  /\ IsBulletAt(head, last.entry)
            /\ AfterMarker(head, last.entry) = text

=============================================================================
